---- MODULE Spec2Model ----
(***************************************************************************)
(* Model of note_csystem: the issue-body request extractor                 *)
(* (services/github.ts), the article codec (services/note-api.ts writes,   *)
(* the two loadArticle functions read), the title/body splitter and the    *)
(* generate / regenerate / export workflows.                               *)
(*                                                                         *)
(* A text is a sequence of characters; a character is a one-element        *)
(* string.  A character outside ASCII is written "uXXXX" (its code unit),  *)
(* e.g. "u30C6" is KATAKANA LETTER TE.                                     *)
(***************************************************************************)
EXTENDS Integers, Sequences, FiniteSets, TLC

VARIABLES
    art,          \* codec: the GeneratedArticle handed to saveArticleAsMarkdown
    doc,          \* codec: the persisted document text (NoDoc before any write)
    loadedRegen,  \* codec: result of the regeneration workflow's loadArticle(doc)
    loadedExport, \* codec: result of the export workflow's loadArticle(doc)
    issue,        \* extractor: the GitHub issue {title, body}
    request,      \* extractor: parseIssueToArticleRequest(issue), NoRequest before
    files,        \* workflows: the articles directory of the checked-out branch, path -> text
    day,          \* workflows: the current date, as a day number
    issueN,       \* workflows: the issue number of the generate run, 0 before it
    regens,       \* workflows: the number of regenerate runs so far
    run,          \* workflows: what the last workflow run did
    arg,          \* calls: the argument of a function called on its own, NoArg before
    result        \* calls: the values the calls returned, in order

vars == <<art, doc, loadedRegen, loadedExport, issue, request,
          files, day, issueN, regens, run, arg, result>>
codecVars == <<art, doc, loadedRegen, loadedExport>>
issueVars == <<issue, request>>
cycleVars == <<files, day, issueN, regens, run>>
callVars == <<arg, result>>

(***************************************************************************)
(* Bounds of the model.                                                    *)
(***************************************************************************)
MaxDocParts == 4
MaxSections == 2
MaxRegens == 1
MaxRefParts == 3
MaxSplitParts == 4
MaxCommandParts == 2
MaxIssueNumber == 12

(***************************************************************************)
(* Characters and JavaScript string primitives.                            *)
(***************************************************************************)
\* characters the regular expression `.` does not match
LineTerminators == {"\n", "\r"}

\* characters matched by \s and removed by String.prototype.trim
WhiteSpace == {" ", "\t", "\n", "\r"}

\* characters matched by \d
Digits == {"0", "1", "2", "3", "4", "5", "6", "7", "8", "9"}

DigitValue(c) ==
    CASE c = "0" -> 0 [] c = "1" -> 1 [] c = "2" -> 2 [] c = "3" -> 3
      [] c = "4" -> 4 [] c = "5" -> 5 [] c = "6" -> 6 [] c = "7" -> 7
      [] c = "8" -> 8 [] c = "9" -> 9

DigitChar(d) == <<"0", "1", "2", "3", "4", "5", "6", "7", "8", "9">>[d + 1]

\* template-literal interpolation of a non-negative integer: ${n}
RECURSIVE NumberToText(_)
NumberToText(n) ==
    IF n < 10 THEN <<DigitChar(n)>>
    ELSE NumberToText(n \div 10) \o <<DigitChar(n % 10)>>

\* parseInt(digits, 10) of a non-empty run of decimal digits
RECURSIVE ParseInt(_)
ParseInt(ds) ==
    IF Len(ds) = 0 THEN 0
    ELSE 10 * ParseInt(SubSeq(ds, 1, Len(ds) - 1)) + DigitValue(ds[Len(ds)])

\* s.slice(n): s without its first n characters
Drop(s, n) == SubSeq(s, n + 1, Len(s))

\* p occurs in s at position i (1-based)
OccursAt(s, p, i) ==
    /\ i >= 1
    /\ i + Len(p) - 1 <= Len(s)
    /\ \A k \in 1..Len(p) : s[i + k - 1] = p[k]

\* s.startsWith(p)
StartsWith(s, p) == OccursAt(s, p, 1)

\* position of the first occurrence of p in s at or after from; 0 when none
IndexFrom(s, p, from) ==
    LET last == Len(s) - Len(p) + 1
        hits == {i \in from..last : s[i] = p[1] /\ OccursAt(s, p, i)}
    IN  IF hits = {} THEN 0
        ELSE CHOOSE i \in hits : \A j \in hits : i <= j

\* s.includes(p)
Includes(s, p) == IndexFrom(s, p, 1) # 0

\* position of the first character at or after i that is in set cs;
\* Len(s) + 1 when none
FirstIn(s, cs, i) ==
    CHOOSE k \in i..(Len(s) + 1) :
        /\ k = Len(s) + 1 \/ s[k] \in cs
        /\ \A j \in i..(k - 1) : s[j] \notin cs

\* position of the first character at or after i that is NOT in set cs;
\* Len(s) + 1 when none
FirstNotIn(s, cs, i) ==
    CHOOSE k \in i..(Len(s) + 1) :
        /\ k = Len(s) + 1 \/ s[k] \notin cs
        /\ \A j \in i..(k - 1) : s[j] \in cs

\* position of the last character before i (going down to lo) that is NOT in
\* set cs; lo - 1 when none
LastNotIn(s, cs, lo, i) ==
    CHOOSE k \in (lo - 1)..i :
        /\ k = lo - 1 \/ s[k] \notin cs
        /\ \A j \in (k + 1)..i : s[j] \in cs

\* s.trim()
Trim(s) ==
    LET a == FirstNotIn(s, WhiteSpace, 1)
        b == LastNotIn(s, WhiteSpace, a, Len(s))
    IN  SubSeq(s, a, b)

IsNotWhiteSpace(c) == c \notin WhiteSpace

\* mutant: whitespace is counted as well
countAllCharacters(text) == Len(text)

\* text.replace(/\s/g, '').length
countCharacters(text) == Len(SelectSeq(text, IsNotWhiteSpace))

\* s.split(sep) for a one-character separator: always at least one piece
RECURSIVE Split(_, _)
Split(s, sep) ==
    LET i == FirstIn(s, {sep}, 1)
    IN  IF i > Len(s) THEN <<s>>
        ELSE <<SubSeq(s, 1, i - 1)>> \o Split(Drop(s, i), sep)

\* pieces.join(sep)
RECURSIVE Join(_, _)
Join(pieces, sep) ==
    IF Len(pieces) = 0 THEN <<>>
    ELSE IF Len(pieces) = 1 THEN pieces[1]
    ELSE pieces[1] \o sep \o Join(Tail(pieces), sep)

\* s.replace(/"/g, r): every occurrence of character c replaced by text r
RECURSIVE ReplaceChar(_, _, _)
ReplaceChar(s, c, r) ==
    IF Len(s) = 0 THEN <<>>
    ELSE (IF s[1] = c THEN r ELSE <<s[1]>>) \o ReplaceChar(Tail(s), c, r)

\* position of the last occurrence of character c in s[lo..hi]; 0 when none
LastCharIn(s, c, lo, hi) ==
    IF \E k \in lo..hi : s[k] = c
    THEN CHOOSE k \in lo..hi : s[k] = c /\ \A j \in (k + 1)..hi : s[j] # c
    ELSE 0

(***************************************************************************)
(* Article codec: services/note-api.ts (saveArticleAsMarkdown) and the two *)
(* loadArticle functions.                                                  *)
(***************************************************************************)
\* "---\n": the opening delimiter line of the front matter
Delim == <<"-", "-", "-", "\n">>

\* "\n---\n": the closing delimiter line of the front matter
CloseDelim == <<"\n", "-", "-", "-", "\n">>

\* 'title: "'
KeyTitle == <<"t", "i", "t", "l", "e", ":", " ", "\"">>

\* 'summary: "'
KeySummary == <<"s", "u", "m", "m", "a", "r", "y", ":", " ", "\"">>

\* 'tags: ['
KeyTags == <<"t", "a", "g", "s", ":", " ", "[">>

\* 'issueNumber: '
KeyIssueNumber == <<"i", "s", "s", "u", "e", "N", "u", "m", "b", "e", "r", ":", " ">>

\* 'generatedAt: "'
KeyGeneratedAt == <<"g", "e", "n", "e", "r", "a", "t", "e", "d", "A", "t", ":", " ", "\"">>

\* 'wordCount: '
KeyWordCount == <<"w", "o", "r", "d", "C", "o", "u", "n", "t", ":", " ">>

\* 'tone: "'
KeyTone == <<"t", "o", "n", "e", ":", " ", "\"">>

\* 'targetAudience: "'
KeyTargetAudience == <<"t", "a", "r", "g", "e", "t", "A", "u", "d", "i", "e", "n", "c", "e", ":", " ", "\"">>

\* the attribution line of the footer (U+3053 U+306E U+8A18 U+4E8B U+306F "AI" ...)
FooterText == <<"*", "u3053", "u306E", "u8A18", "u4E8B", "u306F", "A", "I", "u306B", "u3088", "u3063", "u3066", "u751F", "u6210", "u3055", "u308C", "u307E", "u3057", "u305F", "u3002", "*">>

\* the literal prefix of the footer pattern /\n---\n\n\*<U+3053 U+306E U+8A18 U+4E8B U+306F>.*$/
FooterPrefix == <<"\n", "-", "-", "-", "\n", "\n", "*", "u3053", "u306E", "u8A18", "u4E8B", "u306F">>

\* new Date().toISOString(): the clock is outside the model, one instant stands for it
IsoNow == <<"2", "0", "2", "6", "-", "1", "1", "-", "0", "1", "T", "0", "0", ":", "0", "0", ":", "0", "0", ".", "0", "0", "0", "Z">>

\* 'casual', 'business', 'technical'
casual == <<"c", "a", "s", "u", "a", "l">>
business == <<"b", "u", "s", "i", "n", "e", "s", "s">>
technical == <<"t", "e", "c", "h", "n", "i", "c", "a", "l">>

NL == <<"\n">>
Quote == <<"\"">>

\* `"${t}"` for every tag, joined by ', '
RECURSIVE QuotedTags(_)
QuotedTags(tags) ==
    IF Len(tags) = 0 THEN <<>>
    ELSE <<Quote \o tags[1] \o Quote>> \o QuotedTags(Tail(tags))

\* the document text saveArticleAsMarkdown writes for an article
ArticleMarkdown(article) ==
    Delim
    \o KeyTitle \o article.title \o Quote \o NL
    \o KeySummary \o ReplaceChar(article.summary, "\"", <<"\\", "\"">>) \o Quote \o NL
    \o KeyTags \o Join(QuotedTags(article.metadata.suggestedTags), <<",", " ">>) \o <<"]">> \o NL
    \o KeyIssueNumber \o NumberToText(article.metadata.issueNumber) \o NL
    \o KeyGeneratedAt \o article.generatedAt \o Quote \o NL
    \o KeyWordCount \o NumberToText(article.wordCount) \o NL
    \o KeyTone \o article.metadata.tone \o Quote \o NL
    \o KeyTargetAudience \o article.metadata.targetAudience \o Quote \o NL
    \o Delim
    \o NL
    \o <<"#", " ">> \o article.title \o NL
    \o NL
    \o article.content \o NL
    \o NL
    \o Delim
    \o NL
    \o FooterText \o NL

\* content.match(/^---\n([\s\S]*?)\n---\n([\s\S]*)$/): the lazy group ends at the
\* first closing delimiter after the opening one
MatchFrontmatter(content) ==
    LET c == IF StartsWith(content, Delim)
             THEN IndexFrom(content, CloseDelim, Len(Delim) + 1) ELSE 0
    IN  IF c = 0
        THEN [matched |-> FALSE, frontmatter |-> <<>>, body |-> <<>>]
        ELSE [matched |-> TRUE,
              frontmatter |-> SubSeq(content, Len(Delim) + 1, c - 1),
              body |-> Drop(content, c + Len(CloseDelim) - 1)]

\* fm.match(/<key>(.*)<close>/)?.[1]: the leftmost occurrence of key that has the
\* closing character later on the same line; the greedy group runs to the last
\* closing character of that line.  No match gives found = FALSE.
RECURSIVE MatchDelimited(_, _, _, _)
MatchDelimited(fm, key, close, from) ==
    LET p == IndexFrom(fm, key, from)
        start == p + Len(key)
        eol == FirstIn(fm, LineTerminators, start)
        q == LastCharIn(fm, close, start, eol - 1)
    IN  IF p = 0 THEN [found |-> FALSE, text |-> <<>>]
        ELSE IF q # 0 THEN [found |-> TRUE, text |-> SubSeq(fm, start, q - 1)]
        ELSE MatchDelimited(fm, key, close, p + 1)

\* fm.match(/<key>"(.*)"/)?.[1] || dflt
QuotedFieldOr(fm, key, dflt) ==
    LET m == MatchDelimited(fm, key, "\"", 1)
    IN  IF m.found /\ Len(m.text) > 0 THEN m.text ELSE dflt

\* fm.match(/<key>(\d+)/)?.[1]: the leftmost occurrence of key followed by a
\* digit, with the maximal digit run after it
RECURSIVE MatchDigits(_, _, _)
MatchDigits(fm, key, from) ==
    LET p == IndexFrom(fm, key, from)
        start == p + Len(key)
        stop == FirstNotIn(fm, Digits, start)
    IN  IF p = 0 THEN [found |-> FALSE, text |-> <<>>]
        ELSE IF stop > start THEN [found |-> TRUE, text |-> SubSeq(fm, start, stop - 1)]
        ELSE MatchDigits(fm, key, p + 1)

\* parseInt(fm.match(/issueNumber: (\d+)/)?.[1] || '0', 10)
IssueNumberField(fm) ==
    LET m == MatchDigits(fm, KeyIssueNumber, 1)
    IN  IF m.found THEN ParseInt(m.text) ELSE 0

\* body.replace(/^# .*\n\n/, ''): no m flag, ^ is the start of the text only
StripTitleLine(body) ==
    LET eol == FirstIn(body, LineTerminators, 3)
    IN  IF StartsWith(body, <<"#", " ">>) /\ OccursAt(body, <<"\n", "\n">>, eol)
        THEN Drop(body, eol + 1)
        ELSE body

\* s.replace(/\n---\n\n\*<footer words>.*$/, ''): no m flag, $ is the end of the
\* text only, and `.` stops at a line terminator
RECURSIVE FooterStart(_, _)
FooterStart(s, from) ==
    LET p == IndexFrom(s, FooterPrefix, from)
    IN  IF p = 0 THEN 0
        ELSE IF FirstIn(s, LineTerminators, p + Len(FooterPrefix)) > Len(s) THEN p
        ELSE FooterStart(s, p + 1)

StripFooter(s) ==
    LET p == FooterStart(s, 1)
    IN  IF p = 0 THEN s ELSE SubSeq(s, 1, p - 1)

\* the regeneration workflow's loadArticle, applied to the text of the file
LoadArticleRegen(content) ==
    LET fmm == MatchFrontmatter(content)
        frontmatter == fmm.frontmatter
        contentBody == StripFooter(StripTitleLine(fmm.body))
    IN  IF ~fmm.matched
        THEN [status |-> "failed", error |-> "Invalid article format"]
        ELSE [status |-> "ok",
              article |->
                [title |-> QuotedFieldOr(frontmatter, KeyTitle, <<>>),
                 content |-> Trim(contentBody),
                 summary |-> QuotedFieldOr(frontmatter, KeySummary, <<>>),
                 wordCount |-> countCharacters(contentBody),
                 generatedAt |-> IsoNow,
                 metadata |->
                   [issueNumber |-> IssueNumberField(frontmatter),
                    tone |-> QuotedFieldOr(frontmatter, KeyTone, casual),
                    targetAudience |-> QuotedFieldOr(frontmatter, KeyTargetAudience, <<>>),
                    suggestedTags |-> <<>>]]]

\* t.trim().replace(/"/g, '') for every piece
RECURSIVE CleanTags(_)
CleanTags(pieces) ==
    IF Len(pieces) = 0 THEN <<>>
    ELSE <<ReplaceChar(Trim(pieces[1]), "\"", <<>>)>> \o CleanTags(Tail(pieces))

\* tagsMatch ? tagsMatch[1].split(',').map(...) : []
TagsField(fm) ==
    LET m == MatchDelimited(fm, KeyTags, "]", 1)
    IN  IF m.found THEN CleanTags(Split(m.text, ",")) ELSE <<>>

\* mutant: the export loader rejects a document without front matter, as the
\* regeneration loader does
LoadArticleExportThrows(content) == LoadArticleRegen(content)

\* the export workflow's loadArticle, applied to the text of the file
LoadArticleExport(content) ==
    LET fmm == MatchFrontmatter(content)
        frontmatter == fmm.frontmatter
        lines == Split(content, "\n")
        contentBody == Trim(fmm.body)
    IN  IF ~fmm.matched
        THEN [status |-> "ok",
              article |->
                [title |-> IF StartsWith(lines[1], <<"#">>)
                           THEN Drop(lines[1], FirstNotIn(lines[1], WhiteSpace, 2) - 1)
                           ELSE lines[1],
                 content |-> content,
                 summary |-> <<>>,
                 wordCount |-> countCharacters(content),
                 generatedAt |-> IsoNow,
                 metadata |->
                   [issueNumber |-> 0,
                    tone |-> casual,
                    targetAudience |-> <<>>,
                    suggestedTags |-> <<>>]]]
        ELSE [status |-> "ok",
              article |->
                [title |-> QuotedFieldOr(frontmatter, KeyTitle, <<>>),
                 content |-> contentBody,
                 summary |-> QuotedFieldOr(frontmatter, KeySummary, <<>>),
                 wordCount |-> countCharacters(contentBody),
                 generatedAt |-> IsoNow,
                 metadata |->
                   [issueNumber |-> IssueNumberField(frontmatter),
                    tone |-> QuotedFieldOr(frontmatter, KeyTone, casual),
                    targetAudience |-> QuotedFieldOr(frontmatter, KeyTargetAudience, <<>>),
                    suggestedTags |-> TagsField(frontmatter)]]]

(***************************************************************************)
(* Codec specification: an article is saved once and the written document  *)
(* is read back by both loadArticle functions; a document that was not     *)
(* written by saveArticleAsMarkdown (hand-written or hand-edited) is read   *)
(* by both as well.                                                        *)
(***************************************************************************)
NoArticle == [none |-> TRUE]
NoDoc == [exists |-> FALSE, text |-> <<>>]
NoResult == [status |-> "none"]
NoIssue == [none |-> TRUE]
NoRequest == [none |-> TRUE]
NoRun == [kind |-> "none"]

NoArg == [none |-> TRUE]

\* the call variables in a specification that calls no function on its own
CallUnused ==
    /\ arg = NoArg
    /\ result = <<>>

\* the workflow variables in a specification that runs no workflow
CycleUnused ==
    /\ files = <<>>
    /\ day = 0
    /\ issueN = 0
    /\ regens = 0
    /\ run = NoRun

\* every concatenation of at most n fragments
RECURSIVE Texts(_, _)
Texts(frags, n) ==
    IF n = 0 THEN {<<>>}
    ELSE LET shorter == Texts(frags, n - 1)
         IN  shorter \cup {t \o f : t \in shorter, f \in frags}

\* the default audience of generateArticle: U+4E00 U+822C U+8AAD U+8005
GeneralReaders == <<"u4E00", "u822C", "u8AAD", "u8005">>

TitleSet == {<<"T">>, <<"a", "\"", "b">>}
\* summaries: plain, with a double quote, with a line break, empty, and with a
\* line of three hyphens
SummarySet == {<<"s">>, <<"s", "\"", "s">>, <<"s", "\n", "s">>, <<>>,
               <<"s", "\n", "-", "-", "-", "\n", "s">>}
\* bodies: one line, two paragraphs, starting with a heading, not trimmed
ContentSet == {<<"b">>, <<"b", "\n", "\n", "c">>,
               <<"#", " ", "h", "\n", "\n", "b">>, <<" ", "b", " ", "\n">>}
ToneSet == {casual, technical}
AudienceSet == {GeneralReaders, <<"a", "\n", "b">>}
TagsSet == {<<>>, <<<<"x">>, <<"y", "z">>>>}
IssueNumberSet == {0, MaxIssueNumber}

\* the articles handed to saveArticleAsMarkdown; wordCount is the count of
\* the content or a stale value
ArticleSet ==
    {[title |-> t, content |-> c, summary |-> s,
      wordCount |-> IF stale THEN 0 ELSE countCharacters(c),
      generatedAt |-> IsoNow,
      metadata |-> [issueNumber |-> n, tone |-> to, targetAudience |-> au,
                    suggestedTags |-> tg]] :
        t \in TitleSet, c \in ContentSet, s \in SummarySet,
        stale \in BOOLEAN, n \in IssueNumberSet, to \in ToneSet,
        au \in AudienceSet, tg \in TagsSet}

\* documents in the articles directory that saveArticleAsMarkdown did not write
RawDocFrags == {<<"-", "-", "-">>, Delim, <<"\n">>, <<"#", " ", "H">>, <<"x">>,
                KeyTitle \o <<"T", "\"">>}
RawDocSet == Texts(RawDocFrags, MaxDocParts)

InitCodec ==
    /\ \/ art \in ArticleSet /\ doc = NoDoc
       \/ art = NoArticle /\ doc \in {[exists |-> TRUE, text |-> d] : d \in RawDocSet}
    /\ loadedRegen = NoResult
    /\ loadedExport = NoResult
    /\ issue = NoIssue
    /\ request = NoRequest
    /\ CycleUnused
    /\ CallUnused

SaveArticleAsMarkdown ==
    /\ art # NoArticle
    /\ ~doc.exists
    /\ doc' = [exists |-> TRUE, text |-> ArticleMarkdown(art)]
    /\ UNCHANGED <<art, loadedRegen, loadedExport, issueVars, cycleVars, callVars>>

LoadRegen ==
    /\ doc.exists
    /\ loadedRegen = NoResult
    /\ loadedRegen' = LoadArticleRegen(doc.text)
    /\ UNCHANGED <<art, doc, loadedExport, issueVars, cycleVars, callVars>>

LoadExport ==
    /\ doc.exists
    /\ loadedExport = NoResult
    /\ loadedExport' = LoadArticleExport(doc.text)
    /\ UNCHANGED <<art, doc, loadedRegen, issueVars, cycleVars, callVars>>

NextCodec == SaveArticleAsMarkdown \/ LoadRegen \/ LoadExport

SpecCodec == InitCodec /\ [][NextCodec]_vars

(***************************************************************************)
(* Claims about the codec (checked under SpecCodec).                       *)
(***************************************************************************)
\* the header fields of a loaded article equal those of the saved one
SameHeader(got, want) ==
    /\ got.title = want.title
    /\ got.summary = want.summary
    /\ got.metadata.tone = want.metadata.tone
    /\ got.metadata.targetAudience = want.metadata.targetAudience
    /\ got.metadata.issueNumber = want.metadata.issueNumber

\* the document was written by saveArticleAsMarkdown from art
Saved == art # NoArticle /\ doc.exists

\* C1 (as stated): for every article with non-empty title and content, both
\* loadArticle functions return, from the document saveArticleAsMarkdown wrote,
\* an article with the same title, summary, tone, targetAudience and
\* issueNumber.
C1_HeaderRoundTrip ==
    (Saved /\ Len(art.title) > 0 /\ Len(art.content) > 0) =>
        /\ loadedRegen.status # "failed"
        /\ loadedRegen.status = "ok" => SameHeader(loadedRegen.article, art)
        /\ loadedExport.status = "ok" => SameHeader(loadedExport.article, art)

\* C2 (as stated): for every article whose wordCount is the non-whitespace
\* count of its content, the regeneration loader returns the trimmed body
\* without heading line and footer, so the loaded content has wordCount
\* non-whitespace characters.
C2_BodyRoundTrip ==
    (Saved /\ loadedRegen.status # "none"
        /\ art.wordCount = countCharacters(art.content)) =>
        /\ loadedRegen.status = "ok"
        /\ loadedRegen.article.content = Trim(art.content)
        /\ countCharacters(loadedRegen.article.content) = art.wordCount

\* the document starts with a header block: its first line is "---" and a
\* later line (one that is ended by a line feed) is "---"
StartsWithHeaderBlock(text) ==
    LET lines == Split(text, "\n")
    IN  /\ lines[1] = <<"-", "-", "-">>
        /\ \E j \in 2..(Len(lines) - 1) : lines[j] = <<"-", "-", "-">>

\* the first line of the text without a leading hash and the white space after it
TitleOfFirstLine(text) ==
    LET eol == FirstIn(text, {"\n"}, 1)
        line == SubSeq(text, 1, eol - 1)
    IN  IF Len(line) > 0 /\ line[1] = "#"
        THEN Drop(line, FirstNotIn(line, WhiteSpace, 2) - 1)
        ELSE line

\* the degraded parse of a document without header block
IsDegradedParse(r, text) ==
    /\ r.status = "ok"
    /\ r.article.content = text
    /\ r.article.title = TitleOfFirstLine(text)
    /\ r.article.summary = <<>>
    /\ r.article.metadata.issueNumber = 0
    /\ r.article.metadata.tone = casual
    /\ r.article.metadata.targetAudience = <<>>
    /\ r.article.metadata.suggestedTags = <<>>

\* C4 (as stated): a document that does not start with a header block is
\* loaded without failure by both loadArticle functions, as the degraded parse.
C4_LenientBoth ==
    (doc.exists /\ ~StartsWithHeaderBlock(doc.text)) =>
        /\ loadedRegen.status # "none" => IsDegradedParse(loadedRegen, doc.text)
        /\ loadedExport.status # "none" => IsDegradedParse(loadedExport, doc.text)

\* C4 (amended): a document that does not start with a header block is loaded
\* by the export workflow's loadArticle as the degraded parse, and rejected by
\* the regeneration workflow's loadArticle with "Invalid article format".
C4_LenientExportOnly ==
    (doc.exists /\ ~StartsWithHeaderBlock(doc.text)) =>
        /\ loadedRegen.status # "none" =>
              loadedRegen = [status |-> "failed", error |-> "Invalid article format"]
        /\ loadedExport.status # "none" => IsDegradedParse(loadedExport, doc.text)

\* C4 witness: a headed, non-empty document without header block has been read
\* by both loaders
C4_Witness ==
    /\ doc.exists
    /\ ~StartsWithHeaderBlock(doc.text)
    /\ StartsWith(doc.text, <<"#", " ", "H", "\n">>)
    /\ loadedRegen.status = "failed"
    /\ loadedExport.status = "ok"

(***************************************************************************)
(* Request extractor: services/github.ts.                                  *)
(***************************************************************************)
\* the section names: U+30C6 U+30FC U+30DE (theme), U+30C8 U+30FC U+30F3 (tone),
\* U+6587 U+5B57 U+6570 (length), U+30BF ... U+8005 (target readers),
\* U+8FFD U+52A0 U+6307 U+793A and U+53C2 U+8003 ... (additional instructions)
JaTheme == <<"u30C6", "u30FC", "u30DE">>
JaTone == <<"u30C8", "u30FC", "u30F3">>
JaLength == <<"u6587", "u5B57", "u6570">>
JaTarget == <<"u30BF", "u30FC", "u30B2", "u30C3", "u30C8", "u8AAD", "u8005">>
JaExtra == <<"u8FFD", "u52A0", "u6307", "u793A">>
JaReference == <<"u53C2", "u8003", "u306B", "u3057", "u3066", "u307B", "u3057", "u3044", "u3053", "u3068">>
EnTheme == <<"t", "h", "e", "m", "e">>
EnTone == <<"t", "o", "n", "e">>
EnLength == <<"l", "e", "n", "g", "t", "h">>
EnTarget == <<"t", "a", "r", "g", "e", "t">>

\* the tone keywords: U+30D3 U+30B8 U+30CD U+30B9 (business), U+6280 U+8853 (technical)
JaBusiness == <<"u30D3", "u30B8", "u30CD", "u30B9">>
JaTechnical == <<"u6280", "u8853">>

\* the title prefix U+8A18 U+4E8B U+4F5C U+6210 and the full-width colon U+FF1A
JaPrefix == <<"u8A18", "u4E8B", "u4F5C", "u6210">>
FullWidthColon == "uFF1A"

DefaultTargetLength == 2000

\* line.match(/^##\s+(.+)$/): the greedy \s+ takes the white space after the
\* hashes but leaves one character to the group; `.` matches no line terminator
SectionMatch(line) ==
    LET w == FirstNotIn(line, WhiteSpace, 3)
        k == IF w > Len(line) THEN Len(line) ELSE w
    IN  IF /\ StartsWith(line, <<"#", "#">>)
           /\ Len(line) >= 4
           /\ line[3] \in WhiteSpace
           /\ \A j \in k..Len(line) : line[j] \notin LineTerminators
        THEN [matched |-> TRUE, name |-> Trim(SubSeq(line, k, Len(line)))]
        ELSE [matched |-> FALSE, name |-> <<>>]

\* sections[name] = text
SetSection(sections, name, text) ==
    [n \in DOMAIN sections \cup {name} |-> IF n = name THEN text ELSE sections[n]]

\* the loop of parseIssueSections from line i on, then the final flush
RECURSIVE ParseSectionLines(_, _, _, _, _)
ParseSectionLines(lines, i, currentSection, currentContent, sections) ==
    IF i > Len(lines)
    THEN IF Len(currentSection) > 0
         THEN SetSection(sections, currentSection, Trim(Join(currentContent, NL)))
         ELSE sections
    ELSE LET m == SectionMatch(lines[i])
         IN  IF m.matched
             THEN ParseSectionLines(lines, i + 1, m.name, <<>>,
                      IF Len(currentSection) > 0
                      THEN SetSection(sections, currentSection,
                                      Trim(Join(currentContent, NL)))
                      ELSE sections)
             ELSE IF Len(currentSection) > 0
             THEN ParseSectionLines(lines, i + 1, currentSection,
                                    Append(currentContent, lines[i]), sections)
             ELSE ParseSectionLines(lines, i + 1, currentSection, currentContent,
                                    sections)

parseIssueSections(body) ==
    ParseSectionLines(Split(body, "\n"), 1, <<>>, <<>>, <<>>)

\* sections[name], with '' for undefined: both are falsy
SectionOrEmpty(sections, name) ==
    IF name \in DOMAIN sections THEN sections[name] ELSE <<>>

\* mutant: the English synonym is consulted before the localized name
FirstNonEmptyEnglishFirst(sections, a, b, dflt) ==
    IF Len(SectionOrEmpty(sections, b)) > 0 THEN sections[b]
    ELSE IF Len(SectionOrEmpty(sections, a)) > 0 THEN sections[a]
    ELSE dflt

\* sections[a] || sections[b] || dflt
FirstNonEmpty(sections, a, b, dflt) ==
    IF Len(SectionOrEmpty(sections, a)) > 0 THEN sections[a]
    ELSE IF Len(SectionOrEmpty(sections, b)) > 0 THEN sections[b]
    ELSE dflt

\* mutant: the character class lacks the full-width colon
StripTitlePrefixAsciiColon(title) ==
    IF /\ StartsWith(title, JaPrefix)
       /\ Len(title) > Len(JaPrefix)
       /\ title[Len(JaPrefix) + 1] = ":"
    THEN Drop(title, FirstNotIn(title, WhiteSpace, Len(JaPrefix) + 2) - 1)
    ELSE title

\* title.replace(/^<prefix>[:<full-width colon>]\s*/, '')
StripTitlePrefix(title) ==
    IF /\ StartsWith(title, JaPrefix)
       /\ Len(title) > Len(JaPrefix)
       /\ title[Len(JaPrefix) + 1] \in {":", FullWidthColon}
    THEN Drop(title, FirstNotIn(title, WhiteSpace, Len(JaPrefix) + 2) - 1)
    ELSE title

\* mutant: the technical keywords are tested before the business keywords
ToneOfTechnicalFirst(toneText) ==
    IF Includes(toneText, JaTechnical) \/ Includes(toneText, technical) THEN technical
    ELSE IF Includes(toneText, JaBusiness) \/ Includes(toneText, business) THEN business
    ELSE casual

\* the tone selected from the tone section's text
ToneOf(toneText) ==
    IF Includes(toneText, JaBusiness) \/ Includes(toneText, business) THEN business
    ELSE IF Includes(toneText, JaTechnical) \/ Includes(toneText, technical) THEN technical
    ELSE casual

\* mutant: the pattern matches one digit, /(\d)/
FirstDigitOnly(text) ==
    LET start == FirstIn(text, Digits, 1)
    IN  IF start > Len(text) THEN [found |-> FALSE, text |-> <<>>]
        ELSE [found |-> TRUE, text |-> SubSeq(text, start, start)]

\* lengthText.match(/(\d+)/): the first maximal run of digits
FirstDigitRun(text) ==
    LET start == FirstIn(text, Digits, 1)
    IN  IF start > Len(text) THEN [found |-> FALSE, text |-> <<>>]
        ELSE [found |-> TRUE,
              text |-> SubSeq(text, start, FirstNotIn(text, Digits, start) - 1)]

\* lengthMatch ? parseInt(lengthMatch[1], 10) : 2000
TargetLengthOf(lengthText) ==
    LET m == FirstDigitRun(lengthText)
    IN  IF m.found THEN ParseInt(m.text) ELSE DefaultTargetLength

\* the characters that end a URL in /https?:\/\/[^\s)>\]]+/g
\* mutant: the opening and closing parentheses and square brackets end a URL,
\* the angle bracket does not
UrlStopsWithOpening == WhiteSpace \cup {"(", ")", "[", "]"}

UrlStops == WhiteSpace \cup {")", ">", "]"}

\* length of the scheme https?:// at position i, 0 when there is none
SchemeLen(s, i) ==
    IF OccursAt(s, <<"h", "t", "t", "p", "s", ":", "/", "/">>, i) THEN 8
    ELSE IF OccursAt(s, <<"h", "t", "t", "p", ":", "/", "/">>, i) THEN 7
    ELSE 0

\* a URL matches at position i: a scheme followed by at least one URL character
UrlAt(s, i) ==
    /\ SchemeLen(s, i) > 0
    /\ i + SchemeLen(s, i) <= Len(s)
    /\ s[i + SchemeLen(s, i)] \notin UrlStops

\* body.match(urlPattern) || []: the matches from position from on, left to right
RECURSIVE UrlsFrom(_, _)
UrlsFrom(s, from) ==
    IF \E i \in from..Len(s) : UrlAt(s, i)
    THEN LET i == CHOOSE k \in from..Len(s) :
                      UrlAt(s, k) /\ \A j \in from..(k - 1) : ~UrlAt(s, j)
             stop == FirstIn(s, UrlStops, i + SchemeLen(s, i))
         IN  <<SubSeq(s, i, stop - 1)>> \o UrlsFrom(s, stop)
    ELSE <<>>

extractReferences(body) == UrlsFrom(body, 1)

parseIssueToArticleRequest(is) ==
    LET sections == parseIssueSections(is.body)
        toneText == FirstNonEmpty(sections, JaTone, EnTone, <<>>)
        lengthText == FirstNonEmpty(sections, JaLength, EnLength, <<>>)
    IN  [theme |-> FirstNonEmpty(sections, JaTheme, EnTheme, StripTitlePrefix(is.title)),
         targetAudience |-> FirstNonEmpty(sections, JaTarget, EnTarget, <<>>),
         tone |-> ToneOf(toneText),
         targetLength |-> TargetLengthOf(lengthText),
         additionalInstructions |-> FirstNonEmpty(sections, JaExtra, JaReference, <<>>),
         references |-> extractReferences(is.body)]

(***************************************************************************)
(* Extractor specification: an issue is composed of at most MaxSections     *)
(* sections (a "## name" line followed by a content text) and parsed once.  *)
(***************************************************************************)
\* issue titles: prefix with colon and space, prefix with full-width colon,
\* and the label "article:"
IssueTitleSet ==
    {JaPrefix \o <<":", " ", "A", "I">>,
     JaPrefix \o <<FullWidthColon, "A", "I">>,
     <<"a", "r", "t", "i", "c", "l", "e", ":", " ", "A", "I">>}

ThemeContents == {<<>>, <<"A", "I">>, <<" ">>}
ToneContents ==
    {<<>>, JaBusiness, business, JaTechnical, technical,
     JaTechnical \o <<" ">> \o business, <<"c", "a", "l", "m">>}
LengthContents ==
    {<<>>, <<"1", "5", "0", "0", "u6587", "u5B57">>, <<"0">>, <<"0", "0">>,
     <<"a", "1", "2", "b", "3", "4">>, <<"x">>}
TargetContents == {<<>>, <<"d", "e", "v", "s">>}

SectionSet ==
    {[name |-> n, content |-> c] : n \in {JaTheme, EnTheme}, c \in ThemeContents}
    \cup {[name |-> n, content |-> c] : n \in {JaTone, EnTone}, c \in ToneContents}
    \cup {[name |-> n, content |-> c] : n \in {JaLength, EnLength}, c \in LengthContents}
    \cup {[name |-> n, content |-> c] : n \in {JaTarget, EnTarget}, c \in TargetContents}

\* every sequence of at most n sections
RECURSIVE SectionLists(_)
SectionLists(n) ==
    IF n = 0 THEN {<<>>}
    ELSE LET shorter == SectionLists(n - 1)
         IN  shorter \cup {Append(l, sec) : l \in shorter, sec \in SectionSet}

\* the lines of a section: the heading line, then the content if there is any
SectionLines(sec) ==
    <<<<"#", "#", " ">> \o sec.name>>
    \o (IF Len(sec.content) = 0 THEN <<>> ELSE <<sec.content>>)

RECURSIVE BodyLines(_)
BodyLines(secs) ==
    IF Len(secs) = 0 THEN <<>>
    ELSE SectionLines(secs[1]) \o BodyLines(Tail(secs))

\* the issue body made of the sections
BodyOf(secs) == Join(BodyLines(secs), NL)

InitIssue ==
    /\ \E t \in IssueTitleSet, secs \in SectionLists(MaxSections) :
           issue = [title |-> t, body |-> BodyOf(secs), secs |-> secs]
    /\ request = NoRequest
    /\ art = NoArticle
    /\ doc = NoDoc
    /\ loadedRegen = NoResult
    /\ loadedExport = NoResult
    /\ CycleUnused
    /\ CallUnused

ParseIssue ==
    /\ issue # NoIssue
    /\ request = NoRequest
    /\ request' = parseIssueToArticleRequest(issue)
    /\ UNCHANGED <<issue, codecVars, cycleVars, callVars>>

NextIssue == ParseIssue

SpecIssue == InitIssue /\ [][NextIssue]_vars

(***************************************************************************)
(* Claims about the extractor (checked under SpecIssue).  They speak about *)
(* the sections the issue body was composed of (issue.secs).               *)
(***************************************************************************)
Parsed == issue # NoIssue /\ request # NoRequest

\* the body has a section with this name
HasSec(name) == \E i \in 1..Len(issue.secs) : issue.secs[i].name = name

\* the trimmed text of the last section with this name
LastSec(name) ==
    LET i == CHOOSE k \in 1..Len(issue.secs) :
                 /\ issue.secs[k].name = name
                 /\ \A j \in (k + 1)..Len(issue.secs) : issue.secs[j].name # name
    IN  Trim(issue.secs[i].content)

\* the trimmed texts of all the sections with this name
SecTexts(name) ==
    {Trim(issue.secs[i].content) :
        i \in {k \in 1..Len(issue.secs) : issue.secs[k].name = name}}

\* the text used for a field with a localized and an English section name: the
\* localized section's when it has any, else the English section's, else empty
FieldText(ja, en) ==
    IF HasSec(ja) /\ Len(LastSec(ja)) > 0 THEN LastSec(ja)
    ELSE IF HasSec(en) THEN LastSec(en)
    ELSE <<>>

\* the title without a leading label and the white space after it
RemoveLabel(title, label) ==
    IF StartsWith(title, label)
    THEN Drop(title, FirstNotIn(title, WhiteSpace, Len(label) + 1) - 1)
    ELSE title

ArticleLabel == <<"a", "r", "t", "i", "c", "l", "e", ":">>

\* C6 (as stated): with a theme section (either name) the theme is that
\* section's trimmed text; with none it is the title without a leading
\* "<prefix>:" or "article:" label.
C6_ThemeAsStated ==
    Parsed =>
        IF HasSec(JaTheme) \/ HasSec(EnTheme)
        THEN request.theme \in SecTexts(JaTheme) \cup SecTexts(EnTheme)
        ELSE request.theme =
                 RemoveLabel(RemoveLabel(issue.title, JaPrefix \o <<":">>), ArticleLabel)

\* C6 (amended): the theme is the trimmed text of the (last) localized theme
\* section when that text is not empty, else that of the (last) English theme
\* section when not empty, else the issue title without a leading "<prefix>:"
\* or "<prefix><full-width colon>" and the white space after it; a label
\* "article:" is not removed.
C6_Theme ==
    Parsed =>
        request.theme =
            IF Len(FieldText(JaTheme, EnTheme)) > 0 THEN FieldText(JaTheme, EnTheme)
            ELSE RemoveLabel(RemoveLabel(issue.title, JaPrefix \o <<":">>),
                             JaPrefix \o <<FullWidthColon>>)

\* C6 witness: no theme text at all and a title with the full-width colon
C6_Witness ==
    /\ Parsed
    /\ HasSec(JaTheme)
    /\ Len(FieldText(JaTheme, EnTheme)) = 0
    /\ issue.title = JaPrefix \o <<FullWidthColon, "A", "I">>
    /\ request.theme = <<"A", "I">>

BothPresent(ja, en) == HasSec(ja) /\ HasSec(en)

\* C7 (as stated): when both names of a field are present the field comes from
\* the localized section, whatever its content (empty included).
C7_LocalizedAlwaysWins ==
    Parsed =>
        /\ BothPresent(JaTheme, EnTheme) => request.theme = LastSec(JaTheme)
        /\ BothPresent(JaTone, EnTone) => request.tone = ToneOf(LastSec(JaTone))
        /\ BothPresent(JaLength, EnLength) =>
               request.targetLength = TargetLengthOf(LastSec(JaLength))
        /\ BothPresent(JaTarget, EnTarget) => request.targetAudience = LastSec(JaTarget)

\* C7 (amended): when both names of a field are present the field comes from
\* the localized section if its trimmed text is not empty, and from the English
\* section if the localized text is empty or white space only.
C7_LocalizedWinsUnlessEmpty ==
    Parsed =>
        /\ BothPresent(JaTheme, EnTheme) /\ Len(LastSec(JaTheme)) > 0
               => request.theme = LastSec(JaTheme)
        /\ BothPresent(JaTheme, EnTheme) /\ Len(LastSec(JaTheme)) = 0
               /\ Len(LastSec(EnTheme)) > 0
               => request.theme = LastSec(EnTheme)
        /\ BothPresent(JaTone, EnTone) =>
               request.tone = ToneOf(IF Len(LastSec(JaTone)) > 0
                                     THEN LastSec(JaTone) ELSE LastSec(EnTone))
        /\ BothPresent(JaLength, EnLength) =>
               request.targetLength =
                   TargetLengthOf(IF Len(LastSec(JaLength)) > 0
                                  THEN LastSec(JaLength) ELSE LastSec(EnLength))
        /\ BothPresent(JaTarget, EnTarget) =>
               request.targetAudience =
                   IF Len(LastSec(JaTarget)) > 0
                   THEN LastSec(JaTarget) ELSE LastSec(EnTarget)

\* C7 witness: both tone sections have text, of different tones, and the
\* localized one decided
C7_Witness ==
    /\ Parsed
    /\ BothPresent(JaTone, EnTone)
    /\ LastSec(JaTone) = JaTechnical
    /\ LastSec(EnTone) = business
    /\ request.tone = technical

\* C8: the tone is "business" when the tone section's text contains one of the
\* business keywords, else "technical" when it contains one of the technical
\* keywords, else (no tone section included) "casual".
C8_ToneInference ==
    Parsed =>
        LET toneText == FieldText(JaTone, EnTone)
            isBusiness == Includes(toneText, JaBusiness) \/ Includes(toneText, business)
            isTechnical == Includes(toneText, JaTechnical) \/ Includes(toneText, technical)
        IN  /\ isBusiness => request.tone = business
            /\ ~isBusiness /\ isTechnical => request.tone = technical
            /\ ~isBusiness /\ ~isTechnical => request.tone = casual

\* C8 witness: a tone text with a technical and a business keyword gave business
C8_Witness ==
    /\ Parsed
    /\ FieldText(JaTone, EnTone) = JaTechnical \o <<" ">> \o business
    /\ request.tone = business

\* the value of a run of decimal digits, read left to right
RECURSIVE DecimalValue(_, _)
DecimalValue(ds, acc) ==
    IF Len(ds) = 0 THEN acc
    ELSE DecimalValue(Tail(ds), 10 * acc + DigitValue(ds[1]))

\* text[i..j] is the first maximal run of digits of the text
IsFirstDigitRun(text, i, j) ==
    /\ i <= j
    /\ \A k \in i..j : text[k] \in Digits
    /\ \A k \in 1..(i - 1) : text[k] \notin Digits
    /\ j = Len(text) \/ text[j + 1] \notin Digits

\* C9: targetLength is the value of the first maximal digit run of the length
\* section's text; 2000 when the section is absent or has no digit.
C9_TargetLength ==
    Parsed =>
        LET lengthText == FieldText(JaLength, EnLength)
        IN  IF \E k \in 1..Len(lengthText) : lengthText[k] \in Digits
            THEN \E i, j \in 1..Len(lengthText) :
                     /\ IsFirstDigitRun(lengthText, i, j)
                     /\ request.targetLength = DecimalValue(SubSeq(lengthText, i, j), 0)
            ELSE request.targetLength = 2000

\* C9 witness: a length text with two digit runs gave the value of the first
C9_Witness ==
    /\ Parsed
    /\ FieldText(JaLength, EnLength) = <<"a", "1", "2", "b", "3", "4">>
    /\ request.targetLength = 12

\* C10 (as stated): targetLength is a positive integer for every issue.
C10_PositiveTargetLength == Parsed => request.targetLength >= 1

(***************************************************************************)
(* Title/body splitter and generation: agents/article-generator.ts.        *)
(***************************************************************************)
\* index of the first line that begins with "# " after trimming; 0 when none
\* mutant: the last line that begins with "# " is taken
LastTitleLine(lines) ==
    IF \E i \in 1..Len(lines) : StartsWith(Trim(lines[i]), <<"#", " ">>)
    THEN CHOOSE i \in 1..Len(lines) :
             /\ StartsWith(Trim(lines[i]), <<"#", " ">>)
             /\ \A j \in (i + 1)..Len(lines) : ~StartsWith(Trim(lines[j]), <<"#", " ">>)
    ELSE 0

FirstTitleLine(lines) ==
    IF \E i \in 1..Len(lines) : StartsWith(Trim(lines[i]), <<"#", " ">>)
    THEN CHOOSE i \in 1..Len(lines) :
             /\ StartsWith(Trim(lines[i]), <<"#", " ">>)
             /\ \A j \in 1..(i - 1) : ~StartsWith(Trim(lines[j]), <<"#", " ">>)
    ELSE 0

\* line.replace(/^#\s+/, '') of a line that begins with "# "
StripHash(line) == Drop(line, FirstNotIn(line, WhiteSpace, 2) - 1)

\* line.replace(/^#+\s*/, '')
StripHashes(line) ==
    Drop(line, FirstNotIn(line, WhiteSpace, FirstNotIn(line, {"#"}, 1)) - 1)

parseArticleContent(content) ==
    LET lines == Split(Trim(content), "\n")
        i == FirstTitleLine(lines)
        found == IF i = 0 THEN <<>> ELSE StripHash(Trim(lines[i]))
        title == IF Len(found) > 0 THEN found ELSE StripHashes(lines[1])
        bodyStartIndex == IF Len(found) > 0 THEN i ELSE 1
    IN  [title |-> title,
         body |-> Trim(Join(SubSeq(lines, bodyStartIndex + 1, Len(lines)), NL))]

\* pieces.map(t => t.trim()).filter(Boolean)
RECURSIVE TrimmedNonEmpty(_)
TrimmedNonEmpty(pieces) ==
    IF Len(pieces) = 0 THEN <<>>
    ELSE (IF Len(Trim(pieces[1])) > 0 THEN <<Trim(pieces[1])>> ELSE <<>>)
         \o TrimmedNonEmpty(Tail(pieces))

\* the requests generateArticle sends to the generation service, each awaited
\* before the next: messages.create for the article, generateSummary, suggestTags
generateArticleRequests == <<"article", "summary", "tags">>

\* mutant: regenerateWithFeedback asks for tags as well
regenerateRequestsWithTags == <<"article", "summary", "tags">>

\* the requests regenerateWithFeedback sends: messages.create for the article,
\* generateSummary; the tags are copied from the original article
regenerateRequests == <<"article", "summary">>

\* generateArticle: mainText, summaryText and tagsText are the texts the
\* generation service returned to the three requests
generateArticle(req, mainText, summaryText, tagsText) ==
    LET parsed == parseArticleContent(mainText)
    IN  [title |-> parsed.title,
         content |-> parsed.body,
         summary |-> summaryText,
         wordCount |-> countCharacters(parsed.body),
         generatedAt |-> IsoNow,
         metadata |->
           [issueNumber |-> 0,
            tone |-> IF Len(req.tone) > 0 THEN req.tone ELSE casual,
            targetAudience |-> IF Len(req.targetAudience) > 0
                               THEN req.targetAudience ELSE GeneralReaders,
            suggestedTags |-> TrimmedNonEmpty(Split(tagsText, ","))]]

\* regenerateWithFeedback: mainText and summaryText are the texts the
\* generation service returned to the two requests
regenerateWithFeedback(originalArticle, mainText, summaryText) ==
    LET parsed == parseArticleContent(mainText)
    IN  [title |-> parsed.title,
         content |-> parsed.body,
         summary |-> summaryText,
         wordCount |-> countCharacters(parsed.body),
         generatedAt |-> IsoNow,
         metadata |-> originalArticle.metadata]

(***************************************************************************)
(* File names: saveArticleAsMarkdown, findArticleFiles, findLatestArticle.  *)
(***************************************************************************)
UpperCase == <<"A", "B", "C", "D", "E", "F", "G", "H", "I", "J", "K", "L", "M",
               "N", "O", "P", "Q", "R", "S", "T", "U", "V", "W", "X", "Y", "Z">>
LowerCase == <<"a", "b", "c", "d", "e", "f", "g", "h", "i", "j", "k", "l", "m",
               "n", "o", "p", "q", "r", "s", "t", "u", "v", "w", "x", "y", "z">>

\* c.toLowerCase()
ToLower(c) ==
    IF \E i \in 1..26 : UpperCase[i] = c
    THEN LowerCase[CHOOSE i \in 1..26 : UpperCase[i] = c]
    ELSE c

\* the characters the slug keeps: [a-z0-9], hiragana, katakana, kanji (of the
\* latter three, those that occur in the model)
SlugChars ==
    {LowerCase[i] : i \in 1..26} \cup Digits
    \cup {"u3053", "u306E", "u306F", "u30C6", "u30FC", "u30DE", "u8A18", "u4E8B"}

\* .replace(/[^a-z0-9...]+/g, '-'): every run of other characters becomes one hyphen
RECURSIVE Hyphenate(_)
Hyphenate(t) ==
    IF Len(t) = 0 THEN <<>>
    ELSE IF t[1] \in SlugChars THEN <<t[1]>> \o Hyphenate(Tail(t))
    ELSE <<"-">> \o Hyphenate(Drop(t, FirstIn(t, SlugChars, 1) - 1))

\* .replace(/^-|-$/g, '')
StripHyphens(t) ==
    LET a == IF Len(t) > 0 /\ t[1] = "-" THEN Tail(t) ELSE t
    IN  IF Len(a) > 0 /\ a[Len(a)] = "-" THEN SubSeq(a, 1, Len(a) - 1) ELSE a

SlugLimit == 50

\* the slug of a title
SlugOf(title) ==
    LET lower == [i \in 1..Len(title) |-> ToLower(title[i])]
        t == StripHyphens(Hyphenate(lower))
    IN  SubSeq(t, 1, IF Len(t) < SlugLimit THEN Len(t) ELSE SlugLimit)

\* the path articles/<date>-<slug>.md, kept as the date's day number and the slug
ArticlePath(d, title) == [day |-> d, slug |-> SlugOf(title)]

\* the characters of a file name after the date, in code unit order
CharOrder ==
    <<"-", ".">> \o <<"0", "1", "2", "3", "4", "5", "6", "7", "8", "9">>
    \o LowerCase \o <<"u3053", "u306E", "u306F", "u30C6", "u30DE", "u30FC", "u4E8B", "u8A18">>

CharRank(c) == CHOOSE i \in 1..Len(CharOrder) : CharOrder[i] = c

\* a < b in the order of Array.prototype.sort() on strings
TextLess(a, b) ==
    \E i \in 1..(Len(b)) :
        /\ \A j \in 1..(i - 1) : j <= Len(a) /\ a[j] = b[j]
        /\ \/ i = Len(a) + 1
           \/ i <= Len(a) /\ CharRank(a[i]) < CharRank(b[i])

\* the rest of the file name after the date: "-<slug>.md"
NameTail(path) == <<"-">> \o path.slug \o <<".", "m", "d">>

PathLess(p, q) ==
    \/ p.day < q.day
    \/ p.day = q.day /\ TextLess(NameTail(p), NameTail(q))

\* findLatestArticle: mdFiles.sort().reverse()[0]
LatestPath(fs) ==
    CHOOSE p \in DOMAIN fs : \A q \in DOMAIN fs \ {p} : PathLess(q, p)

\* the result of fs.writeFile(path, text)
WriteFile(fs, path, text) ==
    [q \in DOMAIN fs \cup {path} |-> IF q = path THEN text ELSE fs[q]]

\* parseCommand: the first token of the list that the comment contains, <<>>
\* for undefined
CommandList ==
    <<<<"/", "r", "e", "g", "e", "n", "e", "r", "a", "t", "e">>,
      <<"/", "s", "h", "o", "r", "t", "e", "r">>,
      <<"/", "l", "o", "n", "g", "e", "r">>,
      <<"/", "c", "a", "s", "u", "a", "l">>,
      <<"/", "f", "o", "r", "m", "a", "l">>,
      <<"/", "p", "u", "b", "l", "i", "s", "h">>>>

\* mutant: the command that occurs first in the text wins
parseCommandByPosition(body) ==
    IF \E i \in 1..Len(CommandList) : Includes(body, CommandList[i])
    THEN CommandList[CHOOSE i \in 1..Len(CommandList) :
                         /\ Includes(body, CommandList[i])
                         /\ \A j \in 1..Len(CommandList) :
                                Includes(body, CommandList[j]) =>
                                    IndexFrom(body, CommandList[i], 1)
                                        <= IndexFrom(body, CommandList[j], 1)]
    ELSE <<>>

parseCommand(body) ==
    IF \E i \in 1..Len(CommandList) : Includes(body, CommandList[i])
    THEN CommandList[CHOOSE i \in 1..Len(CommandList) :
                         /\ Includes(body, CommandList[i])
                         /\ \A j \in 1..(i - 1) : ~Includes(body, CommandList[j])]
    ELSE <<>>

(***************************************************************************)
(* Export: formatForNote (services/note-api.ts).                           *)
(***************************************************************************)
\* the characters matched by \w
WordChars ==
    {UpperCase[i] : i \in 1..26} \cup {LowerCase[i] : i \in 1..26}
    \cup Digits \cup {"_"}

\* three backquotes (U+0060), the fence of a code block
Fence == <<"u0060", "u0060", "u0060">>

\* a fence, a run of \w and a line feed match at position i
FenceAt(s, i) ==
    /\ OccursAt(s, Fence, i)
    /\ LET e == FirstNotIn(s, WordChars, i + 3)
       IN  e > i + 3 /\ e <= Len(s) /\ s[e] = "\n"

\* content.replace of every such match by the bare fence and a line feed, from position from on
RECURSIVE StripFenceLanguage(_, _)
StripFenceLanguage(s, from) ==
    IF \E i \in from..Len(s) : FenceAt(s, i)
    THEN LET i == CHOOSE k \in from..Len(s) :
                      FenceAt(s, k) /\ \A j \in from..(k - 1) : ~FenceAt(s, j)
             e == FirstNotIn(s, WordChars, i + 3)
         IN  SubSeq(s, from, i + 2) \o NL \o StripFenceLanguage(s, e + 1)
    ELSE SubSeq(s, from, Len(s))

\* mutant: the pattern keeps its lastIndex from one call to the next, and a
\* call after the first finds no match
formatForNoteKeepsLastIndex(article) ==
    <<"#", " ">> \o article.title \o NL \o NL
        \o StripFenceLanguage(article.content,
                              IF result = <<>> THEN 1 ELSE Len(article.content) + 1)

\* the image pattern is replaced by itself
formatForNote(article) ==
    <<"#", " ">> \o article.title \o NL \o NL \o StripFenceLanguage(article.content, 1)

(***************************************************************************)
(* Workflow specification (Spec): on the branch of one issue, one generate *)
(* run, then regenerate runs and export runs, each a whole invocation of   *)
(* its main().  The generation service's answers, the environment          *)
(* variables and the order of readdir are inputs.                          *)
(***************************************************************************)
NoPath == [day |-> 0, slug |-> <<>>]

\* an article merged earlier from another issue, its wordCount header edited by hand
OldArticle ==
    [title |-> <<"O", "l", "d">>, content |-> <<"o", " ", "b">>, summary |-> <<"s">>,
     wordCount |-> 9, generatedAt |-> IsoNow,
     metadata |-> [issueNumber |-> 3, tone |-> casual,
                   targetAudience |-> GeneralReaders, suggestedTags |-> <<<<"x">>>>]]

\* a document written by hand, without front matter
HandWritten == <<"#", " ", "H", "\n", "\n", "x">>

\* what the articles directory holds when the branch is created
InitialFiles ==
    {<<>>,
     [p \in {[day |-> 0, slug |-> <<"o", "l", "d">>]} |-> ArticleMarkdown(OldArticle)],
     [p \in {[day |-> 0, slug |-> <<"h">>]} |-> HandWritten]}

\* the issue fetched by the generate run
CycleIssueSet ==
    {[title |-> JaPrefix \o <<":", " ", "A", "I">>,
      body |-> <<"#", "#", " ">> \o JaTone \o NL \o JaBusiness \o NL
               \o <<"#", "#", " ">> \o JaTarget \o NL \o <<"d", "e", "v", "s">>]}

\* answers of the generation service to the article request
MainTextSet ==
    {<<"#", " ", "T", "\n", "\n", "b">>,
     <<"#", " ", "U", "\n", "\n", "b", " ", "u0060", "u0060", "u0060", "j", "s", "\n", "c">>}

\* answers of the generation service to the summary request
CycleSummarySet == {<<"s">>, <<"s", "\n", "-", "-", "-", "\n", "s">>}

InitCycle ==
    /\ files \in InitialFiles
    /\ day = 1
    /\ issueN = 0
    /\ regens = 0
    /\ run = NoRun
    /\ art = NoArticle
    /\ doc = NoDoc
    /\ loadedRegen = NoResult
    /\ loadedExport = NoResult
    /\ issue = NoIssue
    /\ request = NoRequest
    /\ CallUnused

\* mutant: only the number is required
MissingInputNumberOnly(number, token) == number = 0

\* if (!issueNumber) exit(1); if (!githubToken) exit(1): number is the parsed
\* ISSUE_NUMBER or PR_NUMBER (0 when unset), token tells whether GITHUB_TOKEN
\* is set
MissingInput(number, token) == number = 0 \/ ~token

\* what the generate run does to the hosting service, git and the file system,
\* in order
GenerateEffects ==
    <<"fetchIssue", "addLabel", "git checkout -b", "writeFile", "git add",
      "git commit", "git push", "gh pr create", "removeLabel", "addLabel",
      "addComment">>

\* what the regenerate run does before it looks for the article
CheckoutEffects == <<"fetchPR", "git fetch", "git checkout">>

\* a run that ended with process.exit(1) after the external actions effects
FailedRun(kind, number, token, effects) ==
    [kind |-> kind, exit |-> 1, number |-> number, token |-> token,
     loadedPath |-> NoPath, original |-> NoArticle, article |-> NoArticle,
     savedPath |-> NoPath, exported |-> <<>>, apiCalls |-> <<>>,
     effects |-> effects]

\* the generate workflow's main(): issueNumber is ISSUE_NUMBER (0 when unset),
\* token tells whether GITHUB_TOKEN is set
Generate(issueNumber, token, is, mainText, summaryText) ==
    /\ issueN = 0
    /\ IF MissingInput(issueNumber, token)
       THEN /\ run' = FailedRun("generate", issueNumber, token, <<>>)
            /\ UNCHANGED <<files, issueN>>
       ELSE LET req == parseIssueToArticleRequest(is)
                generated == generateArticle(req, mainText, summaryText, <<"x", ",", " ", "y">>)
                article == [generated EXCEPT !.metadata.issueNumber = issueNumber]
                filepath == ArticlePath(day, article.title)
            IN  /\ files' = WriteFile(files, filepath, ArticleMarkdown(article))
                /\ issueN' = issueNumber
                /\ run' = [kind |-> "generate", exit |-> 0,
                           number |-> issueNumber, token |-> token,
                           loadedPath |-> NoPath, original |-> NoArticle,
                           article |-> article, savedPath |-> filepath,
                           exported |-> <<>>, apiCalls |-> generateArticleRequests,
                           effects |-> GenerateEffects]
    /\ UNCHANGED <<day, regens, codecVars, issueVars, callVars>>

\* the regenerate workflow's main(): prNumber is PR_NUMBER (0 when unset), first
\* is the entry readdir lists first, date is the day of the run (new Date());
\* the answers of the generation service are drawn after the original is
\* loaded.  The PR comment reaches the generation service only, whose answer
\* is an input here.
Regenerate(prNumber, token, first, date) ==
    /\ issueN # 0
    /\ regens < MaxRegens
    /\ first \in DOMAIN files
    /\ date \in {day, day + 1}
    /\ LET loaded == LoadArticleRegen(files[first])
           originalArticle == loaded.article
       IN  IF MissingInput(prNumber, token)
           THEN /\ run' = FailedRun("regenerate", prNumber, token, <<>>)
                /\ UNCHANGED <<files, regens, day>>
           ELSE IF loaded.status # "ok"
           THEN /\ run' = FailedRun("regenerate", prNumber, token, CheckoutEffects)
                /\ UNCHANGED <<files, regens, day>>
           ELSE \E mainText \in MainTextSet, summaryText \in CycleSummarySet :
                  LET regenerated ==
                          regenerateWithFeedback(originalArticle, mainText, summaryText)
                      newArticle ==
                          [regenerated EXCEPT !.metadata.issueNumber =
                                                 originalArticle.metadata.issueNumber]
                      filepath == ArticlePath(date, newArticle.title)
                  IN  /\ files' = WriteFile(files, filepath, ArticleMarkdown(newArticle))
                      /\ regens' = regens + 1
                      /\ day' = date
                      /\ run' = [kind |-> "regenerate", exit |-> 0,
                                 number |-> prNumber, token |-> token,
                                 loadedPath |-> first, original |-> originalArticle,
                                 article |-> newArticle, savedPath |-> filepath,
                                 exported |-> <<>>, apiCalls |-> regenerateRequests,
                                 effects |-> CheckoutEffects
                                     \o <<"writeFile", "git add", "git commit",
                                          "git push", "addComment">>]
    /\ UNCHANGED <<issueN, codecVars, issueVars, callVars>>

\* the export workflow's main(): articlePath is ARTICLE_PATH, NoPath when it
\* is unset or empty
Export(articlePath) ==
    /\ run.kind # "export"
    /\ LET filepath == IF articlePath = NoPath THEN LatestPath(files) ELSE articlePath
       IN  IF (articlePath = NoPath /\ DOMAIN files = {}) \/ filepath \notin DOMAIN files
           THEN run' = FailedRun("export", 0, FALSE, <<>>)
           ELSE LET article == LoadArticleExport(files[filepath]).article
                IN  run' = [kind |-> "export", exit |-> 0,
                            number |-> 0, token |-> FALSE,
                            loadedPath |-> filepath, original |-> article,
                            article |-> NoArticle, savedPath |-> NoPath,
                            exported |-> formatForNote(article), apiCalls |-> <<>>,
                            effects |-> <<"writeFile">>]
    /\ UNCHANGED <<files, day, issueN, regens, codecVars, issueVars, callVars>>

Next ==
    \/ \E n \in {0, MaxIssueNumber}, token \in BOOLEAN, is \in CycleIssueSet,
          m \in MainTextSet, sm \in CycleSummarySet :
            Generate(n, token, is, m, sm)
    \/ \E pr \in {0, 1}, token \in BOOLEAN, first \in DOMAIN files,
          date \in {day, day + 1} :
            Regenerate(pr, token, first, date)
    \/ \E p \in DOMAIN files \cup {NoPath, [day |-> 0, slug |-> <<"n", "o">>]} :
            Export(p)

Spec == InitCycle /\ [][Next]_vars

(***************************************************************************)
(* Claims about the workflows.                                             *)
(***************************************************************************)
\* the number of positions of text that hold a non-whitespace character
NonWhiteSpaceCount(text) ==
    Cardinality({i \in 1..Len(text) : text[i] \notin WhiteSpace})

WordCountOk(a) ==
    a = NoArticle \/ a.wordCount = NonWhiteSpaceCount(a.content)

\* the value of the wordCount entry in the header of a document; -1 when none
HeaderWordCount(text) ==
    LET m == MatchDigits(text, KeyWordCount, 1)
    IN  IF m.found THEN ParseInt(m.text) ELSE -1

\* C3: every article a completed run has produced (generateArticle,
\* regenerateWithFeedback) or loaded (either loadArticle, the fallback for a
\* document without header included) has wordCount equal to the number of
\* non-whitespace characters of its own content, whatever the header says.
C3_WordCount ==
    (run.kind # "none" /\ run.exit = 0)
        => (WordCountOk(run.original) /\ WordCountOk(run.article))

\* C3 witness: an export run has loaded a document whose header carries another
\* wordCount than the loaded article has.
C3_Witness ==
    /\ run.kind = "export"
    /\ run.exit = 0
    /\ HeaderWordCount(files[run.loadedPath]) >= 0
    /\ HeaderWordCount(files[run.loadedPath]) # run.original.wordCount
    /\ run.original.wordCount > 0

\* C5 as stated: a completed regenerate run that loaded a document written by
\* this review cycle returns an article, and persists a document, whose
\* issueNumber is that of the loaded article and is the issue N of the
\* generate run.
C5_IssueNumberKept ==
    (run.kind = "regenerate" /\ run.exit = 0 /\ run.loadedPath.day >= 1)
        => /\ run.article.metadata.issueNumber = run.original.metadata.issueNumber
           /\ run.article.metadata.issueNumber = issueN
           /\ Includes(files[run.savedPath],
                       NL \o KeyIssueNumber \o NumberToText(issueN) \o NL)

(***************************************************************************)
(* Reference specification (SpecRefs): parseIssueToArticleRequest on       *)
(* issue bodies made of URLs and the characters around them.               *)
(***************************************************************************)
ExampleBody ==
    <<"s", "e", "e", " ", "h", "t", "t", "p", ":", "/", "/", "a", ".", "c", "o", "m", "/", "x", " ", "a", "n", "d", " ", "(", "h", "t", "t", "p", "s", ":", "/", "/", "b", ".", "c", "o", "m", "/", "y", ")">>

RefBodySet ==
    Texts({<<"h", "t", "t", "p", ":", "/", "/", "a">>,
           <<"h", "t", "t", "p", "s", ":", "/", "/", "b">>,
           <<" ">>, <<"(">>, <<")">>, <<">">>, <<"]">>,
           <<"\n", "#", "#", " ", "x", "\n">>}, MaxRefParts)
    \cup {ExampleBody}

InitRefs ==
    /\ \E b \in RefBodySet :
           issue = [title |-> <<"A", "I">>, body |-> b, secs |-> <<>>]
    /\ request = NoRequest
    /\ art = NoArticle
    /\ doc = NoDoc
    /\ loadedRegen = NoResult
    /\ loadedExport = NoResult
    /\ CycleUnused
    /\ CallUnused

SpecRefs == InitRefs /\ [][NextIssue]_vars

\* "http://" or "https://" starts at position i of s
SchemeAt(s, i) ==
    \/ OccursAt(s, <<"h", "t", "t", "p", ":", "/", "/">>, i)
    \/ OccursAt(s, <<"h", "t", "t", "p", "s", ":", "/", "/">>, i)

\* the position after the scheme that starts at i
AfterScheme(s, i) ==
    IF OccursAt(s, <<"h", "t", "t", "p", "s", ":", "/", "/">>, i) THEN i + 8 ELSE i + 7

\* the last position of the maximal run of characters outside stops that
\* follows the scheme at i
RunEnd(s, i, stops) ==
    CHOOSE e \in (AfterScheme(s, i) - 1)..Len(s) :
        /\ \A k \in AfterScheme(s, i)..e : s[k] \notin stops
        /\ e = Len(s) \/ s[e + 1] \in stops

\* a scheme with a non-empty run after it starts at i
RefAt(s, i, stops) == SchemeAt(s, i) /\ RunEnd(s, i, stops) >= AfterScheme(s, i)

\* the starts of the references: not inside an earlier reference
RefStarts(s, stops) ==
    {i \in 1..Len(s) :
        /\ RefAt(s, i, stops)
        /\ \A j \in 1..(i - 1) : RefAt(s, j, stops) => RunEnd(s, j, stops) < i}

\* refs lists, in order of appearance, the scheme-and-run substrings of s
IsReferenceList(refs, s, stops) ==
    LET starts == RefStarts(s, stops)
    IN  /\ Len(refs) = Cardinality(starts)
        /\ \A i \in starts :
               refs[Cardinality({j \in starts : j < i}) + 1]
                   = SubSeq(s, i, RunEnd(s, i, stops))

\* C11 as stated: references lists, in order of appearance and with
\* duplicates, every substring of the body that starts with "http://" or
\* "https://" and runs over the following characters that are neither white
\* space nor a parenthesis nor a square bracket, opening or closing.
C11_ReferencesAsStated ==
    Parsed => IsReferenceList(request.references, issue.body,
                              WhiteSpace \cup {"(", ")", "[", "]"})

\* C11 (amended): the run after the scheme ends at white space or at one of
\* the closing characters ")", ">" and "]"; the opening characters "(", "[" and
\* "<" belong to the run.
C11_References ==
    Parsed => IsReferenceList(request.references, issue.body,
                              WhiteSpace \cup {")", ">", "]"})

\* C11 witness: the body of the example gives its two URLs in order
C11_Witness ==
    /\ Parsed
    /\ issue.body = ExampleBody
    /\ request.references =
           <<SubSeq(ExampleBody, 5, 18), SubSeq(ExampleBody, 25, 39)>>

(***************************************************************************)
(* Split specification (SpecSplit): parseArticleContent called on its own  *)
(* on the texts the generation service may return.                         *)
(***************************************************************************)

\* texts put together from pieces, and the two examples "# Hello\n\nWorld"
\* and "No heading\nmore text"
SplitInputSet ==
    Texts({<<"#", " ", "H">>, <<"#">>, <<" ">>, <<"\n">>, <<"x">>, <<"#", " ">>},
          MaxSplitParts)
    \cup {<<"#", " ", "H", "e", "l", "l", "o", "\n", "\n", "W", "o", "r", "l", "d">>,
          <<"N", "o", " ", "h", "e", "a", "d", "i", "n", "g", "\n",
            "m", "o", "r", "e", " ", "t", "e", "x", "t">>}

InitSplit ==
    /\ \E t \in SplitInputSet : arg = [text |-> t]
    /\ result = <<>>
    /\ art = NoArticle
    /\ doc = NoDoc
    /\ loadedRegen = NoResult
    /\ loadedExport = NoResult
    /\ issue = NoIssue
    /\ request = NoRequest
    /\ CycleUnused

\* const { title, body } = parseArticleContent(content)
ParseArticleContent ==
    /\ arg # NoArg
    /\ result = <<>>
    /\ result' = <<parseArticleContent(arg.text)>>
    /\ UNCHANGED <<arg, codecVars, issueVars, cycleVars>>

NextSplit == ParseArticleContent

SpecSplit == InitSplit /\ [][NextSplit]_vars

\* the trimmed line is a hash, then white space beginning with a space, then
\* the title
IsHeading(line) == StartsWith(Trim(line), <<"#", " ">>)

\* title is what is left of the line after its leading run of hashes (all of
\* them, or only one) and the white space that follows
IsRestAfterHashes(title, line, onlyOne) ==
    \E h \in 0..Len(line), w \in 0..Len(line) :
        /\ h + w <= Len(line)
        /\ \A k \in 1..h : line[k] = "#"
        /\ \A k \in (h + 1)..(h + w) : line[k] \in WhiteSpace
        /\ title = SubSeq(line, h + w + 1, Len(line))
        /\ IF onlyOne THEN h = 1
           ELSE h = Len(line) \/ line[h + 1] # "#"
        /\ h + w = Len(line) \/ line[h + w + 1] \notin WhiteSpace

CommentBodySet ==
    Texts({CommandList[i] : i \in 1..Len(CommandList)}
          \cup {<<" ">>, <<"x">>, <<"/", "s", "h", "o", "r", "t">>,
                <<"/", "S", "h", "o", "r", "t", "e", "r">>},
          MaxCommandParts)

InitCommand ==
    /\ \E b \in CommentBodySet : arg = [text |-> b]
    /\ result = <<>>
    /\ art = NoArticle
    /\ doc = NoDoc
    /\ loadedRegen = NoResult
    /\ loadedExport = NoResult
    /\ issue = NoIssue
    /\ request = NoRequest
    /\ CycleUnused

\* const command = parseCommand(comment.body)
ParseCommand ==
    /\ arg # NoArg
    /\ result = <<>>
    /\ result' = <<parseCommand(arg.text)>>
    /\ UNCHANGED <<arg, codecVars, issueVars, cycleVars>>

NextCommand == ParseCommand

SpecCommand == InitCommand /\ [][NextCommand]_vars

\* the six tokens in the order of their priority
PriorityTokens ==
    <<<<"/", "r", "e", "g", "e", "n", "e", "r", "a", "t", "e">>,
      <<"/", "s", "h", "o", "r", "t", "e", "r">>,
      <<"/", "l", "o", "n", "g", "e", "r">>,
      <<"/", "c", "a", "s", "u", "a", "l">>,
      <<"/", "f", "o", "r", "m", "a", "l">>,
      <<"/", "p", "u", "b", "l", "i", "s", "h">>>>

\* the token is a substring of the text
IsSubstring(token, text) ==
    \E i \in 1..(Len(text) - Len(token) + 1) :
        SubSeq(text, i, i + Len(token) - 1) = token

\* C13: parseCommand returns the first token of the priority list that is a
\* substring of the comment body, wherever the tokens stand in the body, and
\* undefined exactly when no token is a substring of it.
C13_CommandPriority ==
    Len(result) = 1 =>
        /\ \A k \in 1..Len(PriorityTokens) :
               (/\ IsSubstring(PriorityTokens[k], arg.text)
                /\ \A j \in 1..(k - 1) : ~IsSubstring(PriorityTokens[j], arg.text))
                   => result[1] = PriorityTokens[k]
        /\ result[1] = <<>> <=>
               \A k \in 1..Len(PriorityTokens) : ~IsSubstring(PriorityTokens[k], arg.text)

\* C13 witness: "/casual" stands before "/shorter" in the body and "/shorter"
\* is returned
C13_Witness ==
    /\ Len(result) = 1
    /\ arg.text = PriorityTokens[4] \o PriorityTokens[2]
    /\ result[1] = PriorityTokens[2]

(***************************************************************************)
(* Claims about the runs of the workflows, continued.                      *)
(***************************************************************************)
\* C14 as stated: no run sends more than two requests to the generation
\* service.
C14_AtMostTwoCalls ==
    run.kind # "none" => Len(run.apiCalls) <= 2

\* C14 (amended): a completed generate run sends three requests, one after the
\* other: article, summary, tags; a completed regenerate run sends two: article,
\* summary; an export run and a failed run send none.
C14_BoundedCalls ==
    run.kind # "none" =>
        /\ Len(run.apiCalls) <= 3
        /\ run.kind = "generate" /\ run.exit = 0
               => run.apiCalls = <<"article", "summary", "tags">>
        /\ run.kind = "regenerate" /\ run.exit = 0
               => run.apiCalls = <<"article", "summary">>
        /\ run.kind = "export" \/ run.exit # 0 => run.apiCalls = <<>>

\* C14 witness: a generate run has completed with its three requests
C14_Witness ==
    /\ run.kind = "generate"
    /\ run.exit = 0
    /\ Len(run.apiCalls) = 3

(***************************************************************************)
(* Claims about the codec, continued.                                      *)
(***************************************************************************)
\* C15 as stated: the export workflow's loadArticle returns, from the document
\* saveArticleAsMarkdown wrote, the suggestedTags of the saved article, same
\* elements in the same order, an empty list as an empty list; from a document
\* whose header has no tags entry it returns an empty list.
C15_TagRoundTrip ==
    /\ (Saved /\ loadedExport.status = "ok")
           => loadedExport.article.metadata.suggestedTags = art.metadata.suggestedTags
    /\ (doc.exists /\ loadedExport.status = "ok" /\ ~Includes(doc.text, KeyTags))
           => loadedExport.article.metadata.suggestedTags = <<>>

(***************************************************************************)
(* Claims about the runs of the workflows, continued.                      *)
(***************************************************************************)
\* the step is a generate or regenerate run whose number is 0 or whose token
\* is not set
MissingInputRun ==
    /\ run' # run
    /\ run'.kind \in {"generate", "regenerate"}
    /\ run'.number = 0 \/ ~run'.token

\* C16: a generate or regenerate run whose issue or PR number is absent (0) or
\* whose access token is absent ends with a failure exit code and has done
\* nothing: no request to the hosting service, no git command, no request to
\* the generation service, and the files are as they were.
C16_MissingInputAborts ==
    [][MissingInputRun =>
           /\ run'.exit = 1
           /\ run'.effects = <<>>
           /\ run'.apiCalls = <<>>
           /\ files' = files]_vars

\* C16 witness: a regenerate run with a PR number and without token has failed
C16_Witness ==
    /\ run.kind = "regenerate"
    /\ run.number # 0
    /\ ~run.token
    /\ run.exit = 1

(***************************************************************************)
(* Calls of formatForNote (SpecFormat): one article, formatted twice.      *)
(***************************************************************************)
MaxFormatParts == 3

FormatArticleSet ==
    {[OldArticle EXCEPT !.title = t, !.content = c] :
        t \in {<<"T">>, <<>>},
        c \in Texts({Fence \o <<"j", "s", "\n">>, Fence \o <<"\n">>, <<"a", "\n">>,
                     <<"!", "[", "a", "]", "(", "b", ")">>}, MaxFormatParts)}

InitFormat ==
    /\ \E a \in FormatArticleSet : arg = [article |-> a]
    /\ result = <<>>
    /\ art = NoArticle
    /\ doc = NoDoc
    /\ loadedRegen = NoResult
    /\ loadedExport = NoResult
    /\ issue = NoIssue
    /\ request = NoRequest
    /\ CycleUnused

\* const noteContent = formatForNote(article): the function assigns to its
\* local content only
FormatForNote ==
    /\ arg # NoArg
    /\ Len(result) < 2
    /\ result' = Append(result, formatForNote(arg.article))
    /\ UNCHANGED <<arg, codecVars, issueVars, cycleVars>>

NextFormat == FormatForNote

SpecFormat == InitFormat /\ [][NextFormat]_vars

WrittenPaths == {p \in DOMAIN files : p.day # 0}

\* C18: a regenerate run that completes has written the regenerated article
\* to the path it loaded the original from, and the articles directory holds
\* exactly one document written for the article.
C18_UpdatedInPlace ==
    (run.kind = "regenerate" /\ run.exit = 0) =>
        /\ run.savedPath = run.loadedPath
        /\ Cardinality(WrittenPaths) = 1

====
